---- MODULE Spec2Model ----
(***************************************************************************)
(* Model of the PII redaction engine of tool_server/tools/scrub.py:        *)
(* _scrub_text (span collection, overlap resolution, placeholder           *)
(* assignment, text rebuild) and the reapplication of the replacement      *)
(* list to a document tree (_apply_replacements_to_document).              *)
(*                                                                         *)
(* A string is a sequence of one-character strings. Offsets are 0-based    *)
(* and spans half-open, as in Python: the character at offset p of t is    *)
(* t[p + 1].                                                               *)
(***************************************************************************)
EXTENDS Integers, Sequences, FiniteSets, TLC

VARIABLES pc, item, ents, scrubbed, response, ents2, scrubbed2

vars == <<pc, item, ents, scrubbed, response, ents2, scrubbed2>>

(***************************************************************************)
(* Characters and the classes of EMAIL_PATTERN.                            *)
(***************************************************************************)
Letters ==
    {"a", "b", "c", "d", "e", "f", "g", "h", "i", "j", "k", "l", "m",
     "n", "o", "p", "q", "r", "s", "t", "u", "v", "w", "x", "y", "z",
     "A", "B", "C", "D", "E", "F", "G", "H", "I", "J", "K", "L", "M",
     "N", "O", "P", "Q", "R", "S", "T", "U", "V", "W", "X", "Y", "Z"}

DigitChars == <<"0", "1", "2", "3", "4", "5", "6", "7", "8", "9">>

DigitSet == {DigitChars[i] : i \in 1..10}

\* [A-Za-z0-9._%+-] widened by ">" (a character class that is too wide)
IsLocalCharWide(c) == c \in Letters \cup DigitSet \cup {".", "_", "%", "+", "-", ">"}

\* [A-Za-z0-9._%+-]
IsLocalChar(c) == c \in Letters \cup DigitSet \cup {".", "_", "%", "+", "-"}

\* [A-Za-z0-9.-]
IsDomainChar(c) == c \in Letters \cup DigitSet \cup {".", "-"}

\* [A-Za-z]
IsAlphaChar(c) == c \in Letters

ENTITY_LABELS == {"PER", "ORG", "LOC"}

LabelChars(label) ==
    CASE label = "EMAIL" -> <<"E", "M", "A", "I", "L">>
      [] label = "PER" -> <<"P", "E", "R">>
      [] label = "ORG" -> <<"O", "R", "G">>
      [] label = "LOC" -> <<"L", "O", "C">>

RECURSIVE Decimal(_)
\* str(n) for n >= 0
Decimal(n) ==
    IF n < 10 THEN <<DigitChars[n + 1]>>
    ELSE Decimal(n \div 10) \o <<DigitChars[(n % 10) + 1]>>

\* f"<{label}_{counter}>"
Placeholder(label, counter) ==
    <<"<">> \o LabelChars(label) \o <<"_">> \o Decimal(counter) \o <<">">>

\* text[a:b] for 0 <= a, b <= len(text)
Slice(text, a, b) == IF a < b THEN SubSeq(text, a + 1, b) ELSE <<>>

Max(S) == CHOOSE x \in S : \A y \in S : y <= x

(***************************************************************************)
(* EMAIL_PATTERN.finditer(text): leftmost matches, greedy quantifiers with *)
(* backtracking, scanning resumed at the end of each match.                *)
(***************************************************************************)
\* end of the longest run of local-part characters starting at offset i
LocalEnd(text, i) ==
    CHOOSE p \in i..Len(text) :
        /\ \A q \in i..(p - 1) : IsLocalChar(text[q + 1])
        /\ (p = Len(text) \/ ~IsLocalChar(text[p + 1]))

DomainEnd(text, i) ==
    CHOOSE p \in i..Len(text) :
        /\ \A q \in i..(p - 1) : IsDomainChar(text[q + 1])
        /\ (p = Len(text) \/ ~IsDomainChar(text[p + 1]))

AlphaEnd(text, i) ==
    CHOOSE p \in i..Len(text) :
        /\ \A q \in i..(p - 1) : IsAlphaChar(text[q + 1])
        /\ (p = Len(text) \/ ~IsAlphaChar(text[p + 1]))

\* The end offset of the match that starts at offset i, or -1 when the
\* pattern does not match there. "@" is no local-part character, so the
\* local part is the whole run; the domain gives characters back until a
\* "." followed by at least two letters is found.
MatchAt(text, i) ==
    LET j == LocalEnd(text, i) IN
    IF j = i \/ j >= Len(text) \/ text[j + 1] # "@" THEN -1
    ELSE LET m == DomainEnd(text, j + 1)
             dots == {e \in (j + 2)..(m - 1) :
                         /\ text[e + 1] = "."
                         /\ AlphaEnd(text, e + 1) - (e + 1) >= 2}
         IN IF dots = {} THEN -1 ELSE AlphaEnd(text, Max(dots) + 1)

RECURSIVE EmailScan(_, _)
EmailScan(text, pos) ==
    IF pos >= Len(text) THEN <<>>
    ELSE LET e == MatchAt(text, pos) IN
         IF e < 0 THEN EmailScan(text, pos + 1)
         ELSE <<[start |-> pos, end |-> e]>> \o EmailScan(text, e)

FindEmails(text) == EmailScan(text, 0)

(***************************************************************************)
(* _scrub_text, first half: span collection with placeholder assignment.   *)
(* st = [map, counters, segments]: placeholder_map, the counters           *)
(* (email_counter under "EMAIL", label_counters under the labels) and      *)
(* the segments list.                                                      *)
(***************************************************************************)
\* a collector that assigns a fresh placeholder to every span
AddSegmentNoReuse(st, text, start, end, label) ==
    LET raw == Slice(text, start, end)
        n == st.counters[label] + 1
        cnt == [st.counters EXCEPT ![label] = n]
        map == (raw :> Placeholder(label, n)) @@ st.map
    IN [map |-> map, counters |-> cnt,
        segments |-> Append(st.segments,
                            [start |-> start, end |-> end,
                             placeholder |-> map[raw], raw |-> raw])]

\* lines 75-79 and 86-90: look the raw text up, number it on first sight,
\* append the segment
AddSegment(st, text, start, end, label) ==
    LET raw == Slice(text, start, end)
        fresh == raw \notin DOMAIN st.map
        n == st.counters[label] + 1
        cnt == IF fresh THEN [st.counters EXCEPT ![label] = n] ELSE st.counters
        map == IF fresh THEN st.map @@ (raw :> Placeholder(label, n)) ELSE st.map
    IN [map |-> map, counters |-> cnt,
        segments |-> Append(st.segments,
                            [start |-> start, end |-> end,
                             placeholder |-> map[raw], raw |-> raw])]

RECURSIVE CollectEmails(_, _, _, _)
CollectEmails(st, text, matches, i) ==
    IF i > Len(matches) THEN st
    ELSE CollectEmails(AddSegment(st, text, matches[i].start, matches[i].end, "EMAIL"),
                       text, matches, i + 1)

RECURSIVE CollectEntities(_, _, _, _)
CollectEntities(st, text, es, i) ==
    IF i > Len(es) THEN st
    ELSE IF es[i].label_ \notin ENTITY_LABELS
         THEN CollectEntities(st, text, es, i + 1)
         ELSE CollectEntities(
                  AddSegment(st, text, es[i].start_char, es[i].end_char, es[i].label_),
                  text, es, i + 1)

EmptyCollect ==
    [map |-> <<>>,
     counters |-> [l \in ENTITY_LABELS \cup {"EMAIL"} |-> 0],
     segments |-> <<>>]

\* segments as they stand before the sort (lines 70-90)
CollectSegments(text, es) ==
    CollectEntities(CollectEmails(EmptyCollect, text, FindEmails(text), 1),
                    text, es, 1).segments

(***************************************************************************)
(* segments.sort(key=(start, -(end - start))): a stable sort.              *)
(***************************************************************************)
\* a key that orders equal starts by ascending length
SortKeyLessAscending(a, b) ==
    \/ a.start < b.start
    \/ a.start = b.start /\ (a.end - a.start) < (b.end - b.start)

SortKeyLess(a, b) ==
    \/ a.start < b.start
    \/ a.start = b.start /\ (0 - (a.end - a.start)) < (0 - (b.end - b.start))

\* x goes behind every element whose key is not greater than its own
InsertSorted(sorted, x) ==
    LET k == Cardinality({i \in 1..Len(sorted) : ~SortKeyLess(x, sorted[i])})
    IN SubSeq(sorted, 1, k) \o <<x>> \o SubSeq(sorted, k + 1, Len(sorted))

RECURSIVE SortSegments(_)
SortSegments(segs) ==
    IF segs = <<>> THEN <<>>
    ELSE InsertSorted(SortSegments(SubSeq(segs, 1, Len(segs) - 1)), segs[Len(segs)])

(***************************************************************************)
(* _scrub_text, second half: the scan of lines 94-110.                     *)
(* applied records the segments the loop did not skip.                     *)
(***************************************************************************)
\* a scan that skips nothing
SkipsNone(seg, last_index) == FALSE

\* line 100
Skips(seg, last_index) == seg.start < last_index

\* a rebuild that drops the text between two replaced spans
ScanStepDropGap(lp, text, seg) ==
    IF Skips(seg, lp.last_index) THEN lp
    ELSE [cleaned |-> lp.cleaned \o seg.placeholder,
          last_index |-> seg.end,
          ordered_replacements |->
              IF seg.raw \in lp.seen THEN lp.ordered_replacements
              ELSE Append(lp.ordered_replacements, <<seg.raw, seg.placeholder>>),
          seen |-> lp.seen \cup {seg.raw},
          applied |-> Append(lp.applied, seg)]

\* one iteration of the loop of lines 99-107
ScanStep(lp, text, seg) ==
    IF Skips(seg, lp.last_index) THEN lp
    ELSE [cleaned |-> lp.cleaned \o Slice(text, lp.last_index, seg.start)
                          \o seg.placeholder,
          last_index |-> seg.end,
          ordered_replacements |->
              IF seg.raw \in lp.seen THEN lp.ordered_replacements
              ELSE Append(lp.ordered_replacements, <<seg.raw, seg.placeholder>>),
          seen |-> lp.seen \cup {seg.raw},
          applied |-> Append(lp.applied, seg)]

RECURSIVE ScanSegments(_, _, _, _)
ScanSegments(lp, text, segs, i) ==
    IF i > Len(segs) THEN lp
    ELSE ScanSegments(ScanStep(lp, text, segs[i]), text, segs, i + 1)

EmptyScan ==
    [cleaned |-> <<>>, last_index |-> 0, ordered_replacements |-> <<>>,
     seen |-> {}, applied |-> <<>>]

\* _scrub_text(text) with the recognizer answering es for text
ScrubText(text, es) ==
    LET segments == SortSegments(CollectSegments(text, es))
        lp == ScanSegments(EmptyScan, text, segments, 1)
    IN [clean_text |-> lp.cleaned \o Slice(text, lp.last_index, Len(text)),
        replacements |-> lp.ordered_replacements,
        segments |-> segments,
        applied |-> lp.applied]

(***************************************************************************)
(* Inputs. The recognizer (nlp(text).ents) is an external component: its   *)
(* answer is any sequence of labelled non-empty spans of the text.         *)
(***************************************************************************)
MaxTextLen == 4

MaxEnts == 2

MaxEmailEnts == 1

TextAlphabet == {"a"}

RecognizerLabels == {"PER", "ORG", "MISC"}

EmailLabels == {"LOC"}

RECURSIVE StringsUpTo(_, _)
\* every string over alphabet of length at most n
StringsUpTo(alphabet, n) ==
    IF n = 0 THEN {<<>>}
    ELSE LET shorter == StringsUpTo(alphabet, n - 1)
         IN shorter \cup {Append(t, c) : t \in shorter, c \in alphabet}

SpansOf(text, labels) ==
    {x \in [start_char : 0..Len(text), end_char : 0..Len(text), label_ : labels] :
        x.start_char < x.end_char}

RECURSIVE EntitySeqs(_, _)
\* every sequence of at most n entities drawn from spans
EntitySeqs(spans, n) ==
    IF n = 0 THEN {<<>>}
    ELSE LET shorter == EntitySeqs(spans, n - 1)
         IN shorter \cup {Append(es, x) : es \in shorter, x \in spans}

Example1Text ==
    <<"K", "o", "n", "t", "a", "k", "t", ":", " ",
      "k", "a", "i", "@", "e", "x", "a", "m", "p", "l", "e", ".", "c", "o", "m">>

Example1Clean ==
    <<"K", "o", "n", "t", "a", "k", "t", ":", " ",
      "<", "E", "M", "A", "I", "L", "_", "1", ">">>

\* texts that hold e-mail addresses
EmailTexts ==
    {<<"a", "@", "b", ".", "c", "c">>,
     <<"a", "@", "b", ".", "c", "c", " ", "a", "@", "b", ".", "c", "c">>,
     <<" ", "a", "@", "b", ".", "c", "c", " ", "b", "@", "b", ".", "c", "c", " ">>,
     <<"a", "@", "b", ".", "c", "c", "a", "@", "b", ".", "c", "c">>,
     <<"a", ".", "b", "@", "c", "-", "d", ".", "e", ".", "f", "f", "1">>,
     <<" ", "@", "b", ".", "c", "c">>}

TextItem(text) ==
    [mode |-> "text", text |-> text, docx_base64 |-> "none", document |-> <<>>,
     return_docx |-> FALSE,
     preserve_formatting |-> TRUE, include_clean_text |-> FALSE]

NoScrub == [clean_text |-> <<>>, replacements |-> <<>>, segments |-> <<>>, applied |-> <<>>]

NoResponse == [status |-> "none", clean_text |-> <<>>, document |-> <<>>, warnings |-> <<>>]

InitCommon ==
    /\ pc = "request"
    /\ scrubbed = NoScrub
    /\ response = NoResponse
    /\ ents2 = <<>>
    /\ scrubbed2 = NoScrub

\* a text request over the small alphabet, any recognizer answer
InitShortText ==
    /\ \E text \in StringsUpTo(TextAlphabet, MaxTextLen) :
        /\ item = TextItem(text)
        /\ ents \in EntitySeqs(SpansOf(text, RecognizerLabels), MaxEnts)
    /\ InitCommon

\* a text request with e-mail addresses
InitEmailText ==
    /\ \E text \in EmailTexts :
        /\ item = TextItem(text)
        /\ ents \in EntitySeqs(SpansOf(text, EmailLabels), MaxEmailEnts)
    /\ InitCommon

\* "Kontakt: kai@example.com", the recognizer finding nothing
InitExample1 ==
    /\ item = TextItem(Example1Text)
    /\ ents = <<>>
    /\ InitCommon

InitText == InitShortText \/ InitEmailText \/ InitExample1

(***************************************************************************)
(* The /scrub handler, mode "text" (lines 39-43).                          *)
(***************************************************************************)
RejectEmptyText ==
    /\ pc = "request"
    /\ item.mode = "text"
    /\ item.text = <<>>
    /\ pc' = "responded"
    /\ response' = [NoResponse EXCEPT !.status = "400"]
    /\ UNCHANGED <<item, ents, scrubbed, ents2, scrubbed2>>

ScrubTextMode ==
    /\ pc = "request"
    /\ item.mode = "text"
    /\ item.text # <<>>
    /\ LET r == ScrubText(item.text, ents) IN
        /\ scrubbed' = r
        /\ response' = [status |-> "200", clean_text |-> r.clean_text,
                        document |-> <<>>, warnings |-> <<>>]
    /\ pc' = "responded"
    /\ UNCHANGED <<item, ents, ents2, scrubbed2>>

NextText == RejectEmptyText \/ ScrubTextMode

SpecText == InitText /\ [][NextText]_vars

(***************************************************************************)
(* A client that sends the clean_text of a response back as the text of a  *)
(* second request: the handler runs again on it, with a fresh placeholder   *)
(* table and a fresh recognizer answer.                                    *)
(***************************************************************************)
MaxRescrubEnts == 1

RescrubLabels == {"PER"}

RescrubTexts ==
    {<<" ", "a", "b", "@", "c", ".", "d", "d">>,
     <<" ", "@", "b", ".", "c", "c">>,
     <<"a", "@", "b", ".", "c", "c">>}

\* answers as spaCy gives them: entities in text order, none overlapping
\* another
OrderedEntitySeqs(text, labels, n) ==
    {es \in EntitySeqs(SpansOf(text, labels), n) :
        \A i, j \in 1..Len(es) : i < j => es[i].end_char <= es[j].start_char}

InitRescrub ==
    /\ \E text \in RescrubTexts :
        /\ item = TextItem(text)
        /\ ents \in OrderedEntitySeqs(text, RescrubLabels, MaxRescrubEnts)
    /\ InitCommon

RECURSIVE Growth(_, _)
\* by how much the first k replacements of acc lengthen the text
Growth(acc, k) ==
    IF k = 0 THEN 0
    ELSE Growth(acc, k - 1) + Len(acc[k].placeholder) - (acc[k].end - acc[k].start)

\* where the placeholders of the replaced spans acc stand in the clean_text
TokensOf(acc) ==
    {[start |-> acc[k].start + Growth(acc, k - 1),
      end |-> acc[k].start + Growth(acc, k - 1) + Len(acc[k].placeholder),
      placeholder |-> acc[k].placeholder] : k \in 1..Len(acc)}

Overlap(x, y) == x.start < y.end /\ y.start < x.end

\* the recognizer's answer es leaves the placeholders of acc alone
SparesTokens(es, acc) ==
    \A k \in 1..Len(es), t \in TokensOf(acc) :
        ~Overlap([start |-> es[k].start_char, end |-> es[k].end_char], t)

\* the second request: the handler runs on the clean_text of the first
\* response, the recognizer naming no entity that overlaps a placeholder
ScrubAgain ==
    /\ pc = "responded"
    /\ response.status = "200"
    /\ response.clean_text # <<>>
    /\ \E es \in OrderedEntitySeqs(response.clean_text, RescrubLabels, MaxRescrubEnts) :
        /\ SparesTokens(es, scrubbed.applied)
        /\ ents2' = es
        /\ scrubbed2' = ScrubText(response.clean_text, es)
    /\ pc' = "rescrubbed"
    /\ UNCHANGED <<item, ents, scrubbed, response>>

NextRescrub == ScrubTextMode \/ ScrubAgain

SpecRescrub == InitRescrub /\ [][NextRescrub]_vars

(***************************************************************************)
(* The document model of python-docx, as far as the code uses it.          *)
(*   run       [text, fmt]      fmt stands for the run's formatting        *)
(*   paragraph [runs]           paragraph.text joins the run texts         *)
(*   table     [rows], row [cells], cell [paragraphs, tables]              *)
(*   document  [paragraphs, tables]                                        *)
(***************************************************************************)
NewLine == "\n"

RECURSIVE ConcatAll(_)
\* "".join(parts)
ConcatAll(parts) ==
    IF parts = <<>> THEN <<>> ELSE Head(parts) \o ConcatAll(Tail(parts))

\* paragraph.text
ParagraphText(paragraph) ==
    ConcatAll([k \in 1..Len(paragraph.runs) |-> paragraph.runs[k].text])

\* the non-empty paragraph texts of a paragraph list, in order
TextChunks(paragraphs) ==
    LET keep == {k \in 1..Len(paragraphs) : ParagraphText(paragraphs[k]) # <<>>}
        nth(i) == CHOOSE k \in keep : Cardinality({j \in keep : j < k}) = i - 1
    IN [i \in 1..Cardinality(keep) |-> ParagraphText(paragraphs[nth(i)])]

RECURSIVE CollectTableText(_)
CollectTableText(table) ==
    ConcatAll([r \in 1..Len(table.rows) |->
        ConcatAll([c \in 1..Len(table.rows[r].cells) |->
            LET cell == table.rows[r].cells[c]
            IN TextChunks(cell.paragraphs)
                 \o ConcatAll([n \in 1..Len(cell.tables) |->
                                  CollectTableText(cell.tables[n])])])])

RECURSIVE JoinLines(_)
\* "\n".join(chunks)
JoinLines(chunks) ==
    IF chunks = <<>> THEN <<>>
    ELSE IF Len(chunks) = 1 THEN chunks[1]
    ELSE chunks[1] \o <<NewLine>> \o JoinLines(Tail(chunks))

DocumentChunks(document) ==
    TextChunks(document.paragraphs)
        \o ConcatAll([t \in 1..Len(document.tables) |->
                         CollectTableText(document.tables[t])])

CollectDocumentText(document) == JoinLines(DocumentChunks(document))

(***************************************************************************)
(* Reapplication of the replacement list.                                  *)
(***************************************************************************)
RECURSIVE ReplaceFrom(_, _, _, _)
ReplaceFrom(value, original, redacted, i) ==
    IF i + Len(original) > Len(value) THEN Slice(value, i, Len(value))
    ELSE IF Slice(value, i, i + Len(original)) = original
         THEN redacted \o ReplaceFrom(value, original, redacted, i + Len(original))
         ELSE <<value[i + 1]>> \o ReplaceFrom(value, original, redacted, i + 1)

\* value.replace(original, redacted) for a non-empty original: the
\* occurrences found scanning left to right, none overlapping another
StrReplace(value, original, redacted) == ReplaceFrom(value, original, redacted, 0)

RECURSIVE ApplyFrom(_, _, _)
ApplyFrom(value, replacements, i) ==
    IF i > Len(replacements) THEN value
    ELSE ApplyFrom(StrReplace(value, replacements[i][1], replacements[i][2]),
                   replacements, i + 1)

\* _apply_replacements
ApplyReplacements(value, replacements) == ApplyFrom(value, replacements, 1)

\* pair goes behind every pair whose raw text is at least as long
InsertByLength(sorted, pair) ==
    LET k == Cardinality({i \in 1..Len(sorted) : Len(sorted[i][1]) >= Len(pair[1])})
    IN SubSeq(sorted, 1, k) \o <<pair>> \o SubSeq(sorted, k + 1, Len(sorted))

RECURSIVE LongestFirst(_)
\* sorted(replacements, key=len(raw), reverse=True): stable
LongestFirst(replacements) ==
    IF replacements = <<>> THEN <<>>
    ELSE InsertByLength(LongestFirst(SubSeq(replacements, 1, Len(replacements) - 1)),
                        replacements[Len(replacements)])

\* a rewrite that adds the run even when the text is empty
RewriteParagraphAlways(paragraph, text) ==
    [runs |-> <<[text |-> text, fmt |-> "plain"]>>]

\* _rewrite_paragraph: every run removed, one unformatted run added unless
\* the text is empty
RewriteParagraph(paragraph, text) ==
    [runs |-> IF text # <<>> THEN <<[text |-> text, fmt |-> "plain"]>> ELSE <<>>]

\* the run-local edit of lines 170-171
EditRuns(paragraph, replacements) ==
    [runs |-> [k \in 1..Len(paragraph.runs) |->
                  [paragraph.runs[k] EXCEPT
                      !.text = ApplyReplacements(paragraph.runs[k].text, replacements)]]]

\* a paragraph editor that never falls back to the rewrite
ReplaceInParagraphNoFallback(paragraph, replacements, preserve_formatting) ==
    LET desired_text == ApplyReplacements(ParagraphText(paragraph), replacements)
    IN IF preserve_formatting
       THEN [paragraph |-> EditRuns(paragraph, replacements), warnings |-> <<>>]
       ELSE [paragraph |-> RewriteParagraph(paragraph, desired_text), warnings |-> <<>>]

\* _replace_in_paragraph: the paragraph as left behind and the warnings
ReplaceInParagraph(paragraph, replacements, preserve_formatting) ==
    LET desired_text == ApplyReplacements(ParagraphText(paragraph), replacements)
        edited == EditRuns(paragraph, replacements)
    IN IF preserve_formatting
       THEN IF ParagraphText(edited) # desired_text
            THEN [paragraph |-> RewriteParagraph(edited, desired_text),
                  warnings |-> <<"Absatz musste fuer vollstaendige Redaktion neu gesetzt werden.">>]
            ELSE [paragraph |-> edited, warnings |-> <<>>]
       ELSE [paragraph |-> RewriteParagraph(paragraph, desired_text), warnings |-> <<>>]

ReplaceInParagraphSequence(paragraphs, replacements, preserve_formatting) ==
    LET done == [k \in 1..Len(paragraphs) |->
                    ReplaceInParagraph(paragraphs[k], replacements, preserve_formatting)]
    IN [paragraphs |-> [k \in 1..Len(paragraphs) |-> done[k].paragraph],
        warnings |-> ConcatAll([k \in 1..Len(paragraphs) |-> done[k].warnings])]

RECURSIVE ReplaceInTable(_, _, _)
RECURSIVE ReplaceInCell(_, _, _)
\* the body of the loop over row.cells in _replace_in_table
ReplaceInCell(cell, replacements, preserve_formatting) ==
    LET ps == ReplaceInParagraphSequence(cell.paragraphs, replacements, preserve_formatting)
        ts == [n \in 1..Len(cell.tables) |->
                  ReplaceInTable(cell.tables[n], replacements, preserve_formatting)]
    IN [cell |-> [paragraphs |-> ps.paragraphs,
                  tables |-> [n \in 1..Len(cell.tables) |-> ts[n].table]],
        warnings |-> ps.warnings
                        \o ConcatAll([n \in 1..Len(cell.tables) |-> ts[n].warnings])]

ReplaceInTable(table, replacements, preserve_formatting) ==
    LET done == [r \in 1..Len(table.rows) |->
                    [c \in 1..Len(table.rows[r].cells) |->
                        ReplaceInCell(table.rows[r].cells[c], replacements,
                                      preserve_formatting)]]
    IN [table |-> [rows |-> [r \in 1..Len(table.rows) |->
                       [cells |-> [c \in 1..Len(table.rows[r].cells) |->
                                      done[r][c].cell]]]],
        warnings |-> ConcatAll([r \in 1..Len(table.rows) |->
                        ConcatAll([c \in 1..Len(table.rows[r].cells) |->
                                      done[r][c].warnings])])]

\* _apply_replacements_to_document: the document as left behind and the
\* warnings returned
ApplyReplacementsToDocument(document, replacements, preserve_formatting) ==
    LET ordered_replacements == LongestFirst(replacements)
        ps == ReplaceInParagraphSequence(document.paragraphs, ordered_replacements,
                                         preserve_formatting)
        ts == [t \in 1..Len(document.tables) |->
                  ReplaceInTable(document.tables[t], ordered_replacements,
                                 preserve_formatting)]
    IN [document |-> [paragraphs |-> ps.paragraphs,
                      tables |-> [t \in 1..Len(document.tables) |-> ts[t].table]],
        warnings |-> ps.warnings
                        \o ConcatAll([t \in 1..Len(document.tables) |-> ts[t].warnings])]

(***************************************************************************)
(* Document requests. docx_base64 is "none" (field absent), "malformed"    *)
(* (not base64) or "document"; document is what Document(...) parses from  *)
(* the decoded bytes. For documents the recognizer answers as spaCy does:  *)
(* entities in text order, none overlapping another.                       *)
(***************************************************************************)
MaxParaLen == 4

MaxDocEnts == 2

MaxStructEnts == 1

MaxSmallRuns == 2

DocAlphabet == {"a", ">"}

SmallAlphabet == {"a"}

DocLabels == {"PER"}

Formats == <<"bold", "italic", "underline">>

Run(text, k) == [text |-> text, fmt |-> Formats[k]]

Cell(paragraphs, tables) == [paragraphs |-> paragraphs, tables |-> tables]

Row(cells) == [cells |-> cells]

Table(rows) == [rows |-> rows]

DocEntitySeqs(text, n) == OrderedEntitySeqs(text, DocLabels, n)

DocItem(document, return_docx, preserve_formatting, include_clean_text) ==
    [mode |-> "docx", text |-> <<>>, docx_base64 |-> "document", document |-> document,
     return_docx |-> return_docx, preserve_formatting |-> preserve_formatting,
     include_clean_text |-> include_clean_text]

\* one body paragraph of two runs, cut anywhere, formatting to be preserved
InitTwoRunParagraph ==
    /\ \E t \in StringsUpTo(DocAlphabet, MaxParaLen) :
        \E cut \in 0..Len(t) :
            LET paragraph == [runs |-> <<Run(Slice(t, 0, cut), 1),
                                         Run(Slice(t, cut, Len(t)), 2)>>]
                document == [paragraphs |-> <<paragraph>>, tables |-> <<>>]
            IN /\ item = DocItem(document, TRUE, TRUE, TRUE)
               /\ ents \in DocEntitySeqs(CollectDocumentText(document), MaxDocEnts)
    /\ InitCommon

\* paragraphs of at most MaxSmallRuns runs of at most one character
SmallParagraphs ==
    UNION {{[runs |-> [k \in 1..n |-> Run(f[k], k)]] :
               f \in [1..n -> StringsUpTo(SmallAlphabet, 1)]} : n \in 0..MaxSmallRuns}

\* two paragraphs in the body, in the body and a table cell, or in a cell
\* and in a table nested in that cell
Shaped(shape, p1, p2) ==
    CASE shape = "body" -> [paragraphs |-> <<p1, p2>>, tables |-> <<>>]
      [] shape = "table" ->
            [paragraphs |-> <<p1>>,
             tables |-> <<Table(<<Row(<<Cell(<<>>, <<>>), Cell(<<p2>>, <<>>)>>)>>)>>]
      [] shape = "nested" ->
            [paragraphs |-> <<>>,
             tables |-> <<Table(<<Row(<<Cell(<<p1>>,
                              <<Table(<<Row(<<Cell(<<>>, <<>>)>>),
                                        Row(<<Cell(<<p2>>, <<>>)>>)>>)>>)>>)>>)>>]

InitStructured ==
    /\ \E shape \in {"body", "table", "nested"}, p1, p2 \in SmallParagraphs,
          preserve \in BOOLEAN :
        LET document == Shaped(shape, p1, p2)
        IN /\ item = DocItem(document, TRUE, preserve, TRUE)
           /\ ents \in DocEntitySeqs(CollectDocumentText(document), MaxStructEnts)
    /\ InitCommon

EmailCellText ==
    <<"k", "a", "i", "@", "e", "x", "a", "m", "p", "l", "e", ".", "c", "o", "m">>

\* a table cell nested two levels deep that holds one e-mail address
Example3Document ==
    [paragraphs |-> <<>>,
     tables |-> <<Table(<<Row(<<Cell(<<>>,
                      <<Table(<<Row(<<Cell(<<[runs |-> <<Run(EmailCellText, 1)>>]>>,
                                          <<>>)>>)>>)>>)>>)>>)>>]

\* a name split across a bold and an italic run
Example4Document ==
    [paragraphs |-> <<[runs |-> <<Run(<<"K", "a", "i", " ">>, 1),
                                  Run(<<"M", "u", "s", "t", "e", "r">>, 2)>>]>>,
     tables |-> <<>>]

Example4Ents == <<[start_char |-> 0, end_char |-> 10, label_ |-> "PER"]>>

InitExamples ==
    /\ \E return_docx, preserve, include \in BOOLEAN :
        \/ /\ item = DocItem(Example3Document, return_docx, preserve, include)
           /\ ents = <<>>
        \/ /\ item = DocItem(Example4Document, return_docx, preserve, include)
           /\ ents = Example4Ents
        \/ /\ item = [DocItem(<<>>, return_docx, preserve, include)
                         EXCEPT !.docx_base64 = "none"]
           /\ ents = <<>>
        \/ /\ item = [DocItem(<<>>, return_docx, preserve, include)
                         EXCEPT !.docx_base64 = "malformed"]
           /\ ents = <<>>
    /\ InitCommon

InitDoc == InitTwoRunParagraph \/ InitStructured \/ InitExamples

(***************************************************************************)
(* The /scrub handler, mode "docx" (lines 45-66).                          *)
(***************************************************************************)
RejectMissingDocx ==
    /\ pc = "request"
    /\ item.mode = "docx"
    /\ item.docx_base64 = "none"
    /\ pc' = "responded"
    /\ response' = [NoResponse EXCEPT !.status = "400"]
    /\ UNCHANGED <<item, ents, scrubbed, ents2, scrubbed2>>

RejectMalformedDocx ==
    /\ pc = "request"
    /\ item.mode = "docx"
    /\ item.docx_base64 = "malformed"
    /\ pc' = "responded"
    /\ response' = [NoResponse EXCEPT !.status = "400"]
    /\ UNCHANGED <<item, ents, scrubbed, ents2, scrubbed2>>

ScrubDocx ==
    /\ pc = "request"
    /\ item.mode = "docx"
    /\ item.docx_base64 = "document"
    /\ LET plain_text == CollectDocumentText(item.document)
           r == ScrubText(plain_text, ents)
           redacted == ApplyReplacementsToDocument(item.document, r.replacements,
                                                   item.preserve_formatting)
       IN /\ scrubbed' = r
          /\ response' =
                [status |-> "200",
                 clean_text |-> IF item.include_clean_text THEN r.clean_text ELSE <<>>,
                 document |-> IF item.return_docx THEN redacted.document ELSE <<>>,
                 warnings |-> IF item.return_docx THEN redacted.warnings ELSE <<>>]
    /\ pc' = "responded"
    /\ UNCHANGED <<item, ents, ents2, scrubbed2>>

NextDoc == RejectMissingDocx \/ RejectMalformedDocx \/ ScrubDocx

SpecDoc == InitDoc /\ [][NextDoc]_vars

(***************************************************************************)
(* Properties of _scrub_text.                                              *)
(***************************************************************************)
Scrubbed == pc = "responded" /\ response.status = "200" /\ item.mode = "text"

SpanLen(x) == x.end - x.start

\* C1: the spans _scrub_text replaces are in strictly ascending start order
\* and pairwise non-overlapping (a.end <= b.start for a before b), for any
\* list of candidate spans.
C1_AcceptedOrderedDisjoint ==
    Scrubbed =>
        \A i, j \in 1..Len(scrubbed.applied) :
            i < j => /\ scrubbed.applied[i].start < scrubbed.applied[j].start
                     /\ scrubbed.applied[i].end <= scrubbed.applied[j].start

\* two spans replaced, out of candidates of which two overlap partially
C1_Witness ==
    /\ Scrubbed
    /\ Len(scrubbed.applied) >= 2
    /\ \E i, j \in 1..Len(scrubbed.segments) :
        /\ scrubbed.segments[i].start < scrubbed.segments[j].start
        /\ scrubbed.segments[j].start < scrubbed.segments[i].end
        /\ scrubbed.segments[i].end < scrubbed.segments[j].end

IsApplied(x) ==
    \E k \in 1..Len(scrubbed.applied) :
        scrubbed.applied[k].start = x.start /\ scrubbed.applied[k].end = x.end

\* the end of the last span replaced ahead of candidate x in scan order
\* (earlier start, or equal start and longer), 0 when there is none
PreviousEnd(x) ==
    Max({0} \cup {scrubbed.applied[k].end : k \in
            {n \in 1..Len(scrubbed.applied) :
                \/ scrubbed.applied[n].start < x.start
                \/ /\ scrubbed.applied[n].start = x.start
                   /\ SpanLen(scrubbed.applied[n]) > SpanLen(x)}})

\* C2: of two candidates with the same start and different lengths the
\* shorter is never replaced, and the longer is replaced whenever its start
\* is not before the end of the previously replaced span.
C2_LongerWinsAtEqualStart ==
    Scrubbed =>
        \A i, j \in 1..Len(scrubbed.segments) :
            LET a == scrubbed.segments[i]
                b == scrubbed.segments[j]
            IN (a.start = b.start /\ SpanLen(a) < SpanLen(b)) =>
                  /\ ~IsApplied(a)
                  /\ (b.start >= PreviousEnd(b) => IsApplied(b))

\* an e-mail match and a longer recognizer entity start together, and the
\* entity is the one replaced
C2_Witness ==
    /\ Scrubbed
    /\ \E m \in 1..Len(FindEmails(item.text)), k \in 1..Len(ents) :
        /\ ents[k].label_ \in ENTITY_LABELS
        /\ ents[k].start_char = FindEmails(item.text)[m].start
        /\ ents[k].end_char > FindEmails(item.text)[m].end
        /\ IsApplied([start |-> ents[k].start_char, end |-> ents[k].end_char])

Categories == ENTITY_LABELS \cup {"EMAIL"}

\* the category of a placeholder token
CategoryOf(ph) ==
    CHOOSE l \in Categories : \E n \in 1..(Len(scrubbed.segments) + 1) : ph = Placeholder(l, n)

\* C3: per category, the placeholders of the replacement list are numbered
\* 1..k without gaps in the order of first replacement; a candidate dropped
\* by overlap resolution consumes no number.
C3_DenseNumbering ==
    Scrubbed =>
        \A i \in 1..Len(scrubbed.replacements) :
            LET ph == scrubbed.replacements[i][2]
                earlier == {j \in 1..(i - 1) :
                               CategoryOf(scrubbed.replacements[j][2]) = CategoryOf(ph)}
            IN ph = Placeholder(CategoryOf(ph), Cardinality(earlier) + 1)

\* C4: two replaced spans with the identical raw text carry the identical
\* placeholder, whatever label each was detected under.
C4_SameRawSamePlaceholder ==
    Scrubbed =>
        \A i, j \in 1..Len(scrubbed.applied) :
            scrubbed.applied[i].raw = scrubbed.applied[j].raw =>
                scrubbed.applied[i].placeholder = scrubbed.applied[j].placeholder

\* the same raw text replaced at two places, detected there under two
\* different labels
C4_Witness ==
    /\ Scrubbed
    /\ \E i, j \in 1..Len(scrubbed.applied), k, l \in 1..Len(ents) :
        /\ i < j
        /\ scrubbed.applied[i].raw = scrubbed.applied[j].raw
        /\ ents[k].start_char = scrubbed.applied[i].start
        /\ ents[k].end_char = scrubbed.applied[i].end
        /\ ents[l].start_char = scrubbed.applied[j].start
        /\ ents[l].end_char = scrubbed.applied[j].end
        /\ ents[k].label_ \in ENTITY_LABELS
        /\ ents[l].label_ \in ENTITY_LABELS
        /\ ents[k].label_ # ents[l].label_

RECURSIVE Rebuilt(_, _, _)
\* text[0:s0] + p0 + text[e0:s1] + ... + pk for the first k spans of acc
Rebuilt(text, acc, k) ==
    IF k = 0 THEN <<>>
    ELSE Rebuilt(text, acc, k - 1)
            \o Slice(text, IF k = 1 THEN 0 ELSE acc[k - 1].end, acc[k].start)
            \o acc[k].placeholder

\* C5: clean_text = text[0:s0] + p0 + text[e0:s1] + ... + pk + text[ek:];
\* with no span replaced it is the input; "Kontakt: kai@example.com"
\* without entities gives "Kontakt: <EMAIL_1>".
C5_CleanTextIsRebuild ==
    Scrubbed =>
        LET acc == scrubbed.applied
            n == Len(acc)
        IN /\ response.clean_text =
                Rebuilt(item.text, acc, n)
                    \o Slice(item.text, IF n = 0 THEN 0 ELSE acc[n].end, Len(item.text))
           /\ (n = 0 => response.clean_text = item.text)
           /\ (item.text = Example1Text /\ ents = <<>> =>
                  response.clean_text = Example1Clean)

\* two spans replaced with source text before, between and behind them
C5_Witness ==
    /\ Scrubbed
    /\ Len(scrubbed.applied) = 2
    /\ scrubbed.applied[1].start > 0
    /\ scrubbed.applied[1].end < scrubbed.applied[2].start
    /\ scrubbed.applied[2].end < Len(item.text)

(***************************************************************************)
(* Properties of a second run over the clean_text of a first run.          *)
(***************************************************************************)
Tokens == TokensOf(scrubbed.applied)

\* the recognizer's second answer leaves the placeholders alone
RecognizerSparesTokens == SparesTokens(ents2, scrubbed.applied)

\* how far the second run has moved the text that stood at offset p
Shift(p) ==
    LET before == {k \in 1..Len(scrubbed2.applied) : scrubbed2.applied[k].end <= p}
    IN IF before = {} THEN 0 ELSE Growth(scrubbed2.applied, Max(before))

\* C9: when the recognizer returns no entity overlapping a placeholder of
\* the first run, the second run replaces no span overlapping one, the
\* e-mail pattern matches nothing overlapping one, and every placeholder of
\* the first run stands unchanged at the corresponding place of the second
\* clean_text.
C9_PlaceholdersSurviveRescrub ==
    (pc = "rescrubbed" /\ RecognizerSparesTokens) =>
        /\ \A k \in 1..Len(scrubbed2.applied), t \in Tokens :
              ~Overlap(scrubbed2.applied[k], t)
        /\ \A m \in 1..Len(FindEmails(response.clean_text)), t \in Tokens :
              ~Overlap(FindEmails(response.clean_text)[m], t)
        /\ \A t \in Tokens :
              Slice(scrubbed2.clean_text, t.start + Shift(t.start),
                    t.end + Shift(t.start)) = t.placeholder

\* the second run replaces an e-mail address that starts right behind a
\* placeholder of the first run, while the recognizer names an entity
\* outside the placeholders
C9_Witness ==
    /\ pc = "rescrubbed"
    /\ RecognizerSparesTokens
    /\ Tokens # {}
    /\ Len(ents2) > 0
    /\ \E k \in 1..Len(scrubbed2.applied), m \in 1..Len(FindEmails(response.clean_text)),
          t \in Tokens :
        /\ scrubbed2.applied[k].start = FindEmails(response.clean_text)[m].start
        /\ scrubbed2.applied[k].start = t.end

(***************************************************************************)
(* Properties of the reapplication to a document.                          *)
(***************************************************************************)
RECURSIVE TableParagraphs(_)
\* the paragraphs of a table in the order _replace_in_table visits them
TableParagraphs(table) ==
    ConcatAll([r \in 1..Len(table.rows) |->
        ConcatAll([c \in 1..Len(table.rows[r].cells) |->
            LET cell == table.rows[r].cells[c]
            IN cell.paragraphs
                 \o ConcatAll([n \in 1..Len(cell.tables) |->
                                  TableParagraphs(cell.tables[n])])])])

\* every paragraph of a document, empty ones included, in traversal order
AllParagraphs(document) ==
    document.paragraphs
        \o ConcatAll([t \in 1..Len(document.tables) |-> TableParagraphs(document.tables[t])])

DocDone == pc = "responded" /\ item.mode = "docx" /\ response.status = "200"

\* the run-local edit of the paragraph does not add up to desired
RunsDisagree(paragraph, ordered, desired) ==
    ParagraphText(EditRuns(paragraph, ordered)) # desired

MergedRun(desired) == <<[text |-> desired, fmt |-> "plain"]>>

OccursAt(sub, s, i) == i + Len(sub) <= Len(s) /\ Slice(s, i, i + Len(sub)) = sub

Occurs(sub, s) == \E i \in 0..Len(s) : OccursAt(sub, s, i)

\* the offsets at which one run of the paragraph ends and the next begins
Boundaries(paragraph) ==
    {Len(ConcatAll([k \in 1..m |-> paragraph.runs[k].text])) :
        m \in 1..(Len(paragraph.runs) - 1)}

\* some occurrence of raw in the paragraph's text lies across a run boundary
SplitAcrossRuns(paragraph, raw) ==
    LET text == ParagraphText(paragraph) IN
    \E i \in 0..Len(text), b \in Boundaries(paragraph) :
        /\ OccursAt(raw, text, i)
        /\ i < b
        /\ b < i + Len(raw)

\* the effect of _replace_in_paragraph with preserve_formatting on every
\* paragraph: rebuilt as one run of desired_text with one warning if and
\* only if the edited runs disagree with desired_text, else the edited runs
RebuildIffRunsDisagree(before, after, ordered, warnings) ==
    LET desired == [k \in 1..Len(before) |->
                       ApplyReplacements(ParagraphText(before[k]), ordered)]
        edited == [k \in 1..Len(before) |-> EditRuns(before[k], ordered)]
        rebuilt == {k \in 1..Len(before) : ParagraphText(edited[k]) # desired[k]}
    IN /\ Len(after) = Len(before)
       /\ \A k \in 1..Len(before) :
             IF k \in rebuilt THEN after[k].runs = MergedRun(desired[k])
             ELSE after[k] = edited[k]
       /\ Len(warnings) = Cardinality(rebuilt)

\* the paragraph's text is one raw text of the list, cut into two non-empty
\* runs; the placeholder differs from it and no other raw text of the list
\* occurs in the paragraph or in the placeholder
SoleRawSplitInTwo(paragraph, ordered) ==
    /\ Len(paragraph.runs) = 2
    /\ paragraph.runs[1].text # <<>>
    /\ paragraph.runs[2].text # <<>>
    /\ \E i \in 1..Len(ordered) :
        /\ ordered[i][1] = ParagraphText(paragraph)
        /\ ordered[i][2] # ordered[i][1]
        /\ \A j \in 1..Len(ordered) :
              j # i => /\ ~Occurs(ordered[j][1], ParagraphText(paragraph))
                       /\ ~Occurs(ordered[j][1], ordered[i][2])

C7_NoCrossingNoWarning ==
    (DocDone /\ item.return_docx /\ item.preserve_formatting) =>
        LET before == AllParagraphs(item.document)
            after == AllParagraphs(response.document)
            ordered == LongestFirst(scrubbed.replacements)
        IN (\A k \in 1..Len(before), i \in 1..Len(ordered) :
               ~SplitAcrossRuns(before[k], ordered[i][1])) =>
              /\ response.warnings = <<>>
              /\ Len(after) = Len(before)
              /\ \A k \in 1..Len(before) : after[k] = EditRuns(before[k], ordered)

\* C8 as stated: without preserve_formatting every paragraph, empty ones
\* included, ends as exactly one run whose text is desired_text, and no
\* warning is returned.
C8_AlwaysOneRun ==
    (DocDone /\ item.return_docx /\ ~item.preserve_formatting) =>
        LET before == AllParagraphs(item.document)
            after == AllParagraphs(response.document)
            ordered == LongestFirst(scrubbed.replacements)
        IN /\ Len(after) = Len(before)
           /\ \A k \in 1..Len(before) :
                 /\ Len(after[k].runs) = 1
                 /\ after[k].runs[1].text =
                        ApplyReplacements(ParagraphText(before[k]), ordered)
           /\ response.warnings = <<>>

\* C8 (amended): without preserve_formatting every paragraph whose
\* desired_text is not empty ends as exactly one unformatted run holding
\* desired_text, every paragraph whose desired_text is empty ends with no
\* run at all, and no warning is returned.
C8_OneRunUnlessEmpty ==
    (DocDone /\ item.return_docx /\ ~item.preserve_formatting) =>
        LET before == AllParagraphs(item.document)
            after == AllParagraphs(response.document)
            ordered == LongestFirst(scrubbed.replacements)
        IN /\ Len(after) = Len(before)
           /\ \A k \in 1..Len(before) :
                 LET desired == ApplyReplacements(ParagraphText(before[k]), ordered)
                 IN IF desired # <<>> THEN after[k].runs = MergedRun(desired)
                    ELSE after[k].runs = <<>>
           /\ response.warnings = <<>>

\* a table nested in a cell, one paragraph with an empty run, another in
\* which a raw text was replaced
C8_Witness ==
    /\ DocDone
    /\ item.return_docx
    /\ ~item.preserve_formatting
    /\ item.document.paragraphs = <<>>
    /\ LET before == AllParagraphs(item.document)
           after == AllParagraphs(response.document)
       IN \E k, n \in 1..Len(before) :
            /\ Len(before[k].runs) = 1
            /\ ParagraphText(before[k]) = <<>>
            /\ after[k].runs = <<>>
            /\ ParagraphText(after[n]) # ParagraphText(before[n])
            /\ before[n].runs[1].fmt = "bold"
            /\ after[n].runs[1].fmt = "plain"

\* C10: flattening the redacted document gives the clean_text that
\* _scrub_text returned for the flattened original.
C10_DocumentAgreesWithCleanText ==
    (DocDone /\ item.return_docx) =>
        CollectDocumentText(response.document) = scrubbed.clean_text

====
